---- MODULE Spec2Model ----
(***************************************************************************)
(* Model of the frontmatter/markdown scanner of lobre/swap: the lexer of   *)
(* the tri-format variant (lex, run, emit, errorf, next, backup, peek,     *)
(* ignore, consumeCRLF, hasPrefix and the state functions lexStart ..      *)
(* lexDone), its consumer parse (range variant) and main's exit status.    *)
(*                                                                         *)
(* The producer goroutine (lexer.run) and the consumer (parse) are two     *)
(* processes that meet on the unbuffered channel l.items: a send and the   *)
(* matching receive are one joint step.  Every loop iteration of a state   *)
(* function is one step of the producer.                                   *)
(*                                                                         *)
(* Offsets (start, pos, width) are Go's 0-based byte offsets; the input is *)
(* a sequence of byte values, so input[a:b] is SubSeq(input, a+1, b).      *)
(***************************************************************************)
EXTENDS Integers, Sequences, FiniteSets, TLC

VARIABLES
    input,     \* l.input: the bytes being scanned
    start,     \* l.start
    pos,       \* l.pos
    width,     \* l.width
    pc,        \* position of the producer goroutine (state function / send point)
    i,         \* loop counter of the opening-fence loop
    inQuote,   \* lexFrontmatterJSON's inQuote
    level,     \* lexFrontmatterJSON's level
    msg,       \* message of the Error item errorf is sending
    closed,    \* close(l.items) has been executed
    cpc,       \* position of the consumer (parse, then main)
    cur,       \* parse's loop variable item
    received,  \* history: the items handed over on l.items, in order
    spans,     \* history: the spans input[start:pos] taken by emit and dropped by ignore
    ret,       \* what parse returned
    exit       \* status given to os.Exit, -1 while the process runs

vars == <<input, start, pos, width, pc, i, inQuote, level, msg, closed,
          cpc, cur, received, spans, ret, exit>>

consumerVars == <<cpc, cur, received, ret, exit>>

(***************************************************************************)
(* Bounds of the model.                                                    *)
(***************************************************************************)
\* longest input drawn from the full alphabet
MaxLen == 3
\* bytes a fenced document holds besides its two fences
MaxExtra == 5
\* bytes a JSON document holds after its opening brace
MaxJSON == 5

(***************************************************************************)
(* Program constants.                                                      *)
(***************************************************************************)
eof == -1

itemError == 0
itemFrontmatterTOML == 1
itemFrontmatterYAML == 2
itemFrontmatterJSON == 3
itemMarkdown == 4
itemEOF == 5

Plus == 43
Minus == 45
LBrace == 123
RBrace == 125
Quote == 34
Backslash == 92
CR == 13
LF == 10
\* utf8.RuneError, what DecodeRune returns for an invalid encoding
RuneError == 65533
\* length of a fence: the bound of the opening loop and the 'pos += 3'
FenceLen == 3

MsgInvalidTOML == "invalid TOML delimiter"
MsgInvalidYAML == "invalid YAML delimiter"
MsgEofTOML == "EOF looking for end TOML front matter delimiter"
MsgEofYAML == "EOF looking for end YAML front matter delimiter"
MsgEofJSON == "unexpected EOF parsing JSON front matter"

(***************************************************************************)
(* Inputs.  Three families: every byte string up to MaxLen over the whole  *)
(* alphabet; fence X fence Y documents (X over line breaks, 'a' and the    *)
(* fence character, Y over '\n' and 'a'); and '{' X Y documents (X over    *)
(* braces, quote and backslash, Y over line breaks and 'a').               *)
(* 97 is 'a'; 195 169 is the two-byte encoding of U+00E9, and each of the  *)
(* two bytes alone is an invalid encoding.                                 *)
(***************************************************************************)
Alphabet == {Plus, Minus, LBrace, RBrace, Quote, Backslash, CR, LF, 97, 195, 169}

Strs(S, n) == UNION {[1..k -> S] : k \in 0..n}

Fence(c) == <<c, c, c>>

FencedInputs ==
    UNION { UNION { { Fence(c) \o x \o Fence(c) \o y :
                        y \in Strs({LF, 97}, MaxExtra - Len(x)) } :
                    x \in Strs({CR, LF, 97, c}, MaxExtra) } :
            c \in {Plus, Minus} }

JSONInputs ==
    UNION { { <<LBrace>> \o x \o y : y \in Strs({CR, LF, 97}, MaxJSON - Len(x)) } :
            x \in Strs({LBrace, RBrace, Quote, Backslash}, MaxJSON) }

Inputs == Strs(Alphabet, MaxLen) \cup FencedInputs \cup JSONInputs


(***************************************************************************)
(* The primitives of the lexer, as functions of the read position p.       *)
(***************************************************************************)
\* a decoder trusting the lead byte: width 2 whatever follows it
DecodeRuneLeadOnly(p) ==
    LET b0 == input[p + 1]
    IN  IF b0 < 128 THEN <<b0, 1>>
        ELSE IF b0 >= 194 /\ b0 <= 223
             THEN <<RuneError, 2>>
             ELSE <<RuneError, 1>>

\* utf8.DecodeRune(input[p:]) for p < len(input), as <<rune, width>>: one
\* byte below 0x80, a two-byte form (lead 0xC2..0xDF, continuation
\* 0x80..0xBF), and RuneError of width 1 for any other byte of the alphabet.
DecodeRune(p) ==
    LET b0 == input[p + 1]
    IN  IF b0 < 128 THEN <<b0, 1>>
        ELSE IF /\ b0 >= 194 /\ b0 <= 223
                /\ p + 2 <= Len(input)
                /\ input[p + 2] >= 128 /\ input[p + 2] <= 191
             THEN <<(b0 % 32) * 64 + (input[p + 2] % 64), 2>>
             ELSE <<RuneError, 1>>

\* next(): the rune it returns, the width it records, the pos it leaves
NextRune(p) == IF p >= Len(input) THEN eof ELSE DecodeRune(p)[1]

NextWidth(p) == IF p >= Len(input) THEN 0 ELSE DecodeRune(p)[2]

NextPos(p) == p + NextWidth(p)

\* backup stepping back one byte whatever the width
BackupOne(p, w) == p - 1

\* backup(): pos -= width
Backup(p, w) == p - w

\* peek(): next() then backup(); the pos it leaves
PeekPos(p) == Backup(NextPos(p), NextWidth(p))

\* consumeCRLF consuming nothing
ConsumeNothing(p) == [pos |-> p, width |-> NextWidth(p), consumed |-> FALSE]

\* consumeCRLF taking a '\n' only
ConsumeLF(p) ==
    LET p2 == IF NextRune(p) # LF THEN Backup(NextPos(p), NextWidth(p)) ELSE NextPos(p)
    IN  [pos |-> p2, width |-> NextWidth(p), consumed |-> (NextRune(p) = LF)]

\* consumeCRLF(): for r in {'\r', '\n'}: if next() != r then backup().
\* The pos and width it leaves and the flag it returns.
ConsumeCRLF(p) ==
    LET p1 == IF NextRune(p) # CR THEN Backup(NextPos(p), NextWidth(p)) ELSE NextPos(p)
        p2 == IF NextRune(p1) # LF THEN Backup(NextPos(p1), NextWidth(p1)) ELSE NextPos(p1)
    IN  [pos |-> p2, width |-> NextWidth(p1),
         consumed |-> (NextRune(p) = CR \/ NextRune(p1) = LF)]

\* hasPrefix(prefix): bytes.HasPrefix(input[p:], prefix)
HasPrefix(p, prefix) ==
    /\ p + Len(prefix) <= Len(input)
    /\ SubSeq(input, p + 1, p + Len(prefix)) = prefix

\* isEndOfLine true of every character
IsAnyRune(r) == r # eof

IsEndOfLine(r) == r = CR \/ r = LF

\* the item emit(t) sends: item{t, input[start:pos]}
Item(t) == [typ |-> t, val |-> SubSeq(input, start + 1, pos), msg |-> ""]

\* the item errorf sends: item{itemError, []byte(message)}
ErrorItem(m) == [typ |-> itemError, val |-> <<>>, msg |-> m]

\* the zero value of item
ZeroItem == [typ |-> 0, val |-> <<>>, msg |-> ""]

EmittedSpan == [kind |-> "emit", from |-> start, to |-> pos]

IgnoredSpan(p) == [kind |-> "ignore", from |-> start, to |-> p]

(***************************************************************************)
(* Initial state: parse has been called on a reader holding the input.     *)
(***************************************************************************)
Init ==
    /\ input \in Inputs
    /\ start = 0 /\ pos = 0 /\ width = 0
    /\ pc = "notStarted"
    /\ i = 0 /\ inQuote = FALSE /\ level = 0
    /\ msg = ""
    /\ closed = FALSE
    /\ cpc = "parse"
    /\ cur = ZeroItem
    /\ received = <<>>
    /\ spans = <<>>
    /\ ret = "none"
    /\ exit = -1


(***************************************************************************)
(* The producer goroutine: lexer.run and the state functions.              *)
(***************************************************************************)
\* lexStart taking a closing brace for the start of a JSON block too
lexStartAnyBrace ==
    /\ pc = "lexStart"
    /\ pos' = PeekPos(pos)
    /\ width' = NextWidth(pos)
    /\ pc' = CASE NextRune(pos) = Plus   -> "lexFrontmatterTOML"
               [] NextRune(pos) = Minus  -> "lexFrontmatterYAML"
               [] NextRune(pos) \in {LBrace, RBrace} -> "lexFrontmatterJSON"
               [] OTHER                  -> "lexMarkdown"
    /\ UNCHANGED <<input, start, i, inQuote, level, msg, closed, spans, consumerVars>>

\* lexStart: r := l.peek(), then the switch on r
lexStart ==
    /\ pc = "lexStart"
    /\ pos' = PeekPos(pos)
    /\ width' = NextWidth(pos)
    /\ pc' = CASE NextRune(pos) = Plus   -> "lexFrontmatterTOML"
               [] NextRune(pos) = Minus  -> "lexFrontmatterYAML"
               [] NextRune(pos) = LBrace -> "lexFrontmatterJSON"
               [] OTHER                  -> "lexMarkdown"
    /\ UNCHANGED <<input, start, i, inQuote, level, msg, closed, spans, consumerVars>>

\* The opening of a fenced block: one iteration of 'for i := 0; i < 3; i++'
\* (next() must return the fence character c, else errorf(bad)), and after
\* the loop consumeCRLF() and ignore().
FenceOpen(fn, c, bad, scan) ==
    /\ pc = fn
    /\ IF i < FenceLen
       THEN /\ pos' = NextPos(pos)
            /\ width' = NextWidth(pos)
            /\ IF NextRune(pos) # c
               THEN pc' = "errorf" /\ msg' = bad /\ i' = i
               ELSE pc' = fn /\ msg' = msg /\ i' = i + 1
            /\ UNCHANGED <<start, spans>>
       ELSE /\ pos' = ConsumeCRLF(pos).pos
            /\ width' = ConsumeCRLF(pos).width
            /\ start' = ConsumeCRLF(pos).pos
            /\ spans' = Append(spans, IgnoredSpan(ConsumeCRLF(pos).pos))
            /\ pc' = scan
            /\ UNCHANGED <<i, msg>>
    /\ UNCHANGED <<input, inQuote, level, closed, consumerVars>>

\* The search for the closing fence: one iteration of the 'for' loop up to
\* the errorf, the emit or the next iteration.
FenceScan(scan, c, eofMsg, emitPc) ==
    /\ pc = scan
    /\ pos' = NextPos(pos)
    /\ width' = NextWidth(pos)
    /\ IF NextRune(pos) = eof
       THEN pc' = "errorf" /\ msg' = eofMsg
       ELSE /\ msg' = msg
            /\ IF IsEndOfLine(NextRune(pos)) /\ HasPrefix(NextPos(pos), Fence(c))
               THEN pc' = emitPc
               ELSE pc' = scan
    /\ UNCHANGED <<input, start, i, inQuote, level, closed, spans, consumerVars>>

\* After the emit of the frontmatter item: l.pos += 3, consumeCRLF(),
\* ignore(), break, return lexMarkdown.
FenceClose(closePc) ==
    /\ pc = closePc
    /\ pos' = ConsumeCRLF(pos + FenceLen).pos
    /\ width' = ConsumeCRLF(pos + FenceLen).width
    /\ start' = ConsumeCRLF(pos + FenceLen).pos
    /\ spans' = Append(spans, IgnoredSpan(ConsumeCRLF(pos + FenceLen).pos))
    /\ pc' = "lexMarkdown"
    /\ UNCHANGED <<input, i, inQuote, level, msg, closed, consumerVars>>

lexFrontmatterTOML ==
    \/ FenceOpen("lexFrontmatterTOML", Plus, MsgInvalidTOML, "scanTOML")
    \/ FenceScan("scanTOML", Plus, MsgEofTOML, "emitTOML")
    \/ FenceClose("closeTOML")

lexFrontmatterYAML ==
    \/ FenceOpen("lexFrontmatterYAML", Minus, MsgInvalidYAML, "scanYAML")
    \/ FenceScan("scanYAML", Minus, MsgEofYAML, "emitYAML")
    \/ FenceClose("closeYAML")

\* lexFrontmatterJSON: one iteration of the 'for' loop (next(), the switch,
\* the test of level), and after the loop consumeCRLF() up to the emit.
\* the level counting the braces inside strings too
JSONLevelInStrings(r) ==
    IF r = LBrace THEN level + 1
    ELSE IF r = RBrace THEN level - 1
    ELSE level

JSONLevel(r) ==
    IF r = LBrace /\ ~inQuote THEN level + 1
    ELSE IF r = RBrace /\ ~inQuote THEN level - 1
    ELSE level

JSONInQuote(r) == IF r = Quote THEN ~inQuote ELSE inQuote

\* the switch without the backslash case
JSONPosNoEscape(r) == NextPos(pos)

\* the backslash case calling backup() where the code calls next()
JSONPosStuck(r) == IF r = Backslash THEN Backup(NextPos(pos), NextWidth(pos)) ELSE NextPos(pos)

\* the pos after the switch: a backslash calls next() once more
JSONPos(r) == IF r = Backslash THEN NextPos(NextPos(pos)) ELSE NextPos(pos)

JSONWidth(r) == IF r = Backslash THEN NextWidth(NextPos(pos)) ELSE NextWidth(pos)

lexFrontmatterJSON ==
    \/ /\ pc = "lexFrontmatterJSON"
       /\ LET r == NextRune(pos)
          IN  IF r = eof
              THEN /\ pos' = NextPos(pos)
                   /\ width' = NextWidth(pos)
                   /\ pc' = "errorf" /\ msg' = MsgEofJSON
                   /\ UNCHANGED <<level, inQuote>>
              ELSE /\ pos' = JSONPos(r)
                   /\ width' = JSONWidth(r)
                   /\ level' = JSONLevel(r)
                   /\ inQuote' = JSONInQuote(r)
                   /\ pc' = IF JSONLevel(r) = 0 THEN "endJSON" ELSE "lexFrontmatterJSON"
                   /\ msg' = msg
       /\ UNCHANGED <<input, start, i, closed, spans, consumerVars>>
    \/ /\ pc = "endJSON"
       /\ pos' = ConsumeCRLF(pos).pos
       /\ width' = ConsumeCRLF(pos).width
       /\ pc' = "emitJSON"
       /\ UNCHANGED <<input, start, i, inQuote, level, msg, closed, spans, consumerVars>>

\* lexMarkdown ending the content at the first line break instead of at the
\* end of input
lexMarkdownToLineBreak ==
    /\ pc = "lexMarkdown"
    /\ pos' = NextPos(pos)
    /\ width' = NextWidth(pos)
    /\ pc' = IF NextRune(pos) = eof \/ IsEndOfLine(NextRune(pos))
             THEN "emitMarkdown" ELSE "lexMarkdown"
    /\ UNCHANGED <<input, start, i, inQuote, level, msg, closed, spans, consumerVars>>

\* lexMarkdown looking at the consumer: a character read while parse is in
\* its loop body is dropped from the content
lexMarkdownRacy ==
    /\ pc = "lexMarkdown"
    /\ pos' = NextPos(pos)
    /\ width' = NextWidth(pos)
    /\ start' = IF cpc = "body" /\ NextRune(pos) # eof THEN NextPos(pos) ELSE start
    /\ pc' = IF NextRune(pos) = eof THEN "emitMarkdown" ELSE "lexMarkdown"
    /\ UNCHANGED <<input, i, inQuote, level, msg, closed, spans, consumerVars>>

\* lexMarkdown: one iteration of the 'for' loop up to the emit
lexMarkdown ==
    /\ pc = "lexMarkdown"
    /\ pos' = NextPos(pos)
    /\ width' = NextWidth(pos)
    /\ pc' = IF NextRune(pos) = eof THEN "emitMarkdown" ELSE "lexMarkdown"
    /\ UNCHANGED <<input, start, i, inQuote, level, msg, closed, spans, consumerVars>>

\* The send points of the producer: the item type an emit sends there and
\* where the producer goes on once the item is taken.  lexDone is
\* emit(itemEOF) followed by 'return nil', which leaves run's loop.
EmitPcs == {"emitTOML", "emitYAML", "emitJSON", "emitMarkdown", "lexDone"}

EmitTyp(p) ==
    CASE p = "emitTOML"     -> itemFrontmatterTOML
      [] p = "emitYAML"     -> itemFrontmatterYAML
      [] p = "emitJSON"     -> itemFrontmatterJSON
      [] p = "emitMarkdown" -> itemMarkdown
      [] p = "lexDone"      -> itemEOF

EmitNext(p) ==
    CASE p = "emitTOML"     -> "closeTOML"
      [] p = "emitYAML"     -> "closeYAML"
      [] p = "emitJSON"     -> "lexMarkdown"
      [] p = "emitMarkdown" -> "lexDone"
      [] p = "lexDone"      -> "close"

\* emit without its 'l.start = l.pos'
emitKeepStart ==
    /\ pc \in EmitPcs
    /\ cpc = "range"
    /\ cur' = Item(EmitTyp(pc))
    /\ received' = Append(received, Item(EmitTyp(pc)))
    /\ cpc' = "body"
    /\ spans' = Append(spans, EmittedSpan)
    /\ pc' = EmitNext(pc)
    /\ UNCHANGED <<input, start, pos, width, i, inQuote, level, msg, closed, ret, exit>>

\* emit not waiting for the receiver: the item is stored whether or not
\* parse stands at its receive
emitNoWait ==
    /\ pc \in EmitPcs
    /\ cur' = Item(EmitTyp(pc))
    /\ received' = Append(received, Item(EmitTyp(pc)))
    /\ cpc' = "body"
    /\ spans' = Append(spans, EmittedSpan)
    /\ start' = pos
    /\ pc' = EmitNext(pc)
    /\ UNCHANGED <<input, pos, width, i, inQuote, level, msg, closed, ret, exit>>

\* emit(t) meeting parse's 'for item := range items': the send on the
\* unbuffered channel and the receive are one step; then l.start = l.pos.
emit ==
    /\ pc \in EmitPcs
    /\ cpc = "range"
    /\ cur' = Item(EmitTyp(pc))
    /\ received' = Append(received, Item(EmitTyp(pc)))
    /\ cpc' = "body"
    /\ spans' = Append(spans, EmittedSpan)
    /\ start' = pos
    /\ pc' = EmitNext(pc)
    /\ UNCHANGED <<input, pos, width, i, inQuote, level, msg, closed, ret, exit>>

\* errorf returning lexMarkdown instead of nil
errorfGoesOn ==
    /\ pc = "errorf"
    /\ cpc = "range"
    /\ cur' = ErrorItem(msg)
    /\ received' = Append(received, ErrorItem(msg))
    /\ cpc' = "body"
    /\ pc' = "lexMarkdown"
    /\ UNCHANGED <<input, start, pos, width, i, inQuote, level, msg, closed, spans, ret, exit>>

\* errorf meeting parse's receive: sends item{itemError, message} and
\* returns nil, which leaves run's loop.
errorf ==
    /\ pc = "errorf"
    /\ cpc = "range"
    /\ cur' = ErrorItem(msg)
    /\ received' = Append(received, ErrorItem(msg))
    /\ cpc' = "body"
    /\ pc' = "close"
    /\ UNCHANGED <<input, start, pos, width, i, inQuote, level, msg, closed, spans, ret, exit>>

\* run returning without close(l.items)
runNoClose ==
    /\ pc = "close"
    /\ pc' = "exited"
    /\ UNCHANGED <<input, start, pos, width, i, inQuote, level, msg, closed, spans, consumerVars>>

\* run, after its loop: close(l.items)
run ==
    /\ pc = "close"
    /\ closed' = TRUE
    /\ pc' = "exited"
    /\ UNCHANGED <<input, start, pos, width, i, inQuote, level, msg, spans, consumerVars>>

(***************************************************************************)
(* The consumer: parse (the 'range items' variant) and main.               *)
(***************************************************************************)
\* ioutil.ReadAll fails: parse returns the wrapped error, no lexer is made
parseReadError ==
    /\ cpc = "parse"
    /\ ret' = "error"
    /\ cpc' = "returned"
    /\ UNCHANGED <<input, start, pos, width, pc, i, inQuote, level, msg, closed,
                   cur, received, spans, exit>>

\* ioutil.ReadAll succeeds: lex(b) makes the lexer and starts 'go l.run()'
lex ==
    /\ cpc = "parse"
    /\ cpc' = "range"
    /\ pc' = "lexStart"
    /\ UNCHANGED <<input, start, pos, width, i, inQuote, level, msg, closed,
                   cur, received, spans, ret, exit>>

\* the body of the range loop: break on itemEOF, else Println and loop
parseBody ==
    /\ cpc = "body"
    /\ IF cur.typ = itemEOF
       THEN cpc' = "returned" /\ ret' = "nil"
       ELSE cpc' = "range" /\ ret' = ret
    /\ UNCHANGED <<input, start, pos, width, pc, i, inQuote, level, msg, closed,
                   cur, received, spans, exit>>

\* the range loop ends when the channel is closed: return nil
parseRangeEnd ==
    /\ cpc = "range"
    /\ closed
    /\ cpc' = "returned"
    /\ ret' = "nil"
    /\ UNCHANGED <<input, start, pos, width, pc, i, inQuote, level, msg, closed,
                   cur, received, spans, exit>>

\* main: if err := parse(f); err != nil { os.Exit(1) }; os.Exit(0)
main ==
    /\ cpc = "returned"
    /\ exit' = IF ret # "nil" THEN 1 ELSE 0
    /\ cpc' = "exited"
    /\ UNCHANGED <<input, start, pos, width, pc, i, inQuote, level, msg, closed,
                   cur, received, spans, ret>>

\* os.Exit ends the process, the producer goroutine with it
Alive == exit = -1

Next ==
    \/ Alive /\ lexStart
    \/ Alive /\ lexFrontmatterTOML
    \/ Alive /\ lexFrontmatterYAML
    \/ Alive /\ lexFrontmatterJSON
    \/ Alive /\ lexMarkdown
    \/ Alive /\ emit
    \/ Alive /\ errorf
    \/ Alive /\ run
    \/ parseReadError
    \/ lex
    \/ parseBody
    \/ parseRangeEnd
    \/ main

Spec == Init /\ [][Next]_vars


(***************************************************************************)
(* Properties.                                                             *)
(***************************************************************************)
\* the state machine has returned nil: every item of the run has been sent
ScanComplete == pc \in {"close", "exited"}

EOFItem == [typ |-> itemEOF, val |-> <<>>, msg |-> ""]

Content(v) == [typ |-> itemMarkdown, val |-> v, msg |-> ""]

\* input[a:b]
Slice(a, b) == SubSeq(input, a + 1, b)

\* the first character is none of '+', '-', '{' (the empty input included)
PlainInput == Len(input) = 0 \/ input[1] \notin {Plus, Minus, LBrace}

\* C1: for every input whose first character is none of '+', '-', '{' (the
\* empty input included), a complete run delivers exactly one Content item
\* whose value is the whole input and then one EOF item with empty value.
C1_PlainInputIsOneContent ==
    (PlainInput /\ ScanComplete) => received = <<Content(input), EOFItem>>

\* a complete run on a plain input that holds a line break and a multi-byte
\* character
C1_Witness ==
    /\ PlainInput /\ ScanComplete
    /\ \E k \in 1..Len(input) : IsEndOfLine(input[k])
    /\ \E k \in 1..Len(input) : input[k] = 195
    /\ received = <<Content(input), EOFItem>>


\* the line breaks of a document
LineBreaks == {<<LF>>, <<CR>>, <<CR, LF>>}

\* the bytes s stand at offset p of the input
StartsAt(p, s) == p + Len(s) <= Len(input) /\ Slice(p, p + Len(s)) = s

\* no byte of input[a:b] is a line-break character immediately followed by
\* the fence of c
NoCloseInside(a, b, c) ==
    \A k \in (a + 1)..b : ~(input[k] \in {CR, LF} /\ StartsAt(k, Fence(c)))

Frontmatter(t, v) == [typ |-> t, val |-> v, msg |-> ""]

\* the items the claim C2 expects for fence, line break, A, line break,
\* fence, line break, BODY: for every way of reading the input in that form
FencedBlockStripped(c, t) ==
    \A lb1 \in LineBreaks : \A lb2 \in LineBreaks : \A lb3 \in LineBreaks :
      \A n \in 1..Len(input) :
        LET a == Len(Fence(c)) + Len(lb1)
            b == a + n
            body == b + Len(lb2) + Len(Fence(c)) + Len(lb3)
        IN  ( /\ StartsAt(0, Fence(c) \o lb1)
              /\ StartsAt(b, lb2 \o Fence(c) \o lb3)
              /\ NoCloseInside(a, b, c) )
            => received = << Frontmatter(t, Slice(a, b)),
                             Content(Slice(body, Len(input))), EOFItem >>

\* C2: for each fence F of '+++', '---' and every input F, line break, A,
\* line break, F, line break, BODY (A non-empty, no line break in A
\* immediately followed by F) the run delivers the frontmatter item of the
\* matching kind with value exactly A, the Content item with value exactly
\* BODY, and EOF.  The code does not do this: the frontmatter value keeps the
\* line break that precedes the closing fence.
C2_FrontmatterValueIsA ==
    ScanComplete =>
        /\ FencedBlockStripped(Plus, itemFrontmatterTOML)
        /\ FencedBlockStripped(Minus, itemFrontmatterYAML)


(***************************************************************************)
(* The JSON object at the head of the input, read as JSON reads it: a      *)
(* string runs from a '"' to the next '"' that no backslash of the string  *)
(* escapes, and only braces outside strings nest.                          *)
(***************************************************************************)
RECURSIVE MatchEnd(_, _, _)
\* the index of the '}' at which the nesting d of input[k..] returns to
\* zero, -1 if there is none (q: k is inside a string)
MatchEnd(k, d, q) ==
    IF k > Len(input) THEN -1
    ELSE IF q
         THEN IF input[k] = Backslash THEN MatchEnd(k + 2, d, TRUE)
              ELSE IF input[k] = Quote THEN MatchEnd(k + 1, d, FALSE)
              ELSE MatchEnd(k + 1, d, TRUE)
         ELSE IF input[k] = Quote THEN MatchEnd(k + 1, d, TRUE)
              ELSE IF input[k] = LBrace THEN MatchEnd(k + 1, d + 1, FALSE)
              ELSE IF input[k] = RBrace
                   THEN IF d = 1 THEN k ELSE MatchEnd(k + 1, d - 1, FALSE)
                   ELSE MatchEnd(k + 1, d, FALSE)

\* the offset just after the '}' that matches a leading '{', -1 if none
JSONEnd == IF Len(input) > 0 /\ input[1] = LBrace THEN MatchEnd(1, 0, FALSE) ELSE -1

RECURSIVE StrayBackslash(_, _, _)
\* a backslash stands outside a string in input[k..e] (q: k is inside a string)
StrayBackslash(k, q, e) ==
    IF k > e \/ k > Len(input) THEN FALSE
    ELSE IF q
         THEN IF input[k] = Backslash THEN StrayBackslash(k + 2, TRUE, e)
              ELSE StrayBackslash(k + 1, input[k] # Quote, e)
         ELSE IF input[k] = Backslash THEN TRUE
              ELSE StrayBackslash(k + 1, input[k] = Quote, e)

\* the offset after the '\r' and the '\n' that may follow offset e, in
\* that order
AfterLineBreak(e) ==
    LET e1 == IF StartsAt(e, <<CR>>) THEN e + 1 ELSE e
    IN  IF StartsAt(e1, <<LF>>) THEN e1 + 1 ELSE e1

UnclosedFence(c) ==
    /\ StartsAt(0, Fence(c))
    /\ NoCloseInside(Len(Fence(c)), Len(input), c)

\* a leading '{' that no '}' outside strings matches
UnclosedJSON == Len(input) > 0 /\ input[1] = LBrace /\ JSONEnd = -1

\* C4 as claimed: every input that opens a frontmatter block which is never
\* closed delivers exactly one item, the Error item with the message of
\* that frontmatter kind, and nothing else.
C4_UnclosedIsOneError ==
    ScanComplete =>
        /\ UnclosedFence(Plus) => received = <<ErrorItem(MsgEofTOML)>>
        /\ UnclosedFence(Minus) => received = <<ErrorItem(MsgEofYAML)>>
        /\ UnclosedJSON => received = <<ErrorItem(MsgEofJSON)>>

\* C4 amended: as claimed for '+++' and '---'; for a leading '{' when,
\* besides, no backslash stands outside a string of the input.
C4_UnclosedIsOneErrorNoStrayBackslash ==
    ScanComplete =>
        /\ UnclosedFence(Plus) => received = <<ErrorItem(MsgEofTOML)>>
        /\ UnclosedFence(Minus) => received = <<ErrorItem(MsgEofYAML)>>
        /\ (UnclosedJSON /\ ~StrayBackslash(1, FALSE, Len(input)))
              => received = <<ErrorItem(MsgEofJSON)>>

\* the channel is closed after a '+++' block with a body line and a
\* mid-line '+++' was left open
C4_Witness ==
    /\ closed /\ UnclosedFence(Plus)
    /\ StartsAt(Len(Fence(Plus)), <<LF, 97>>)
    /\ \E k \in 5..Len(input) : StartsAt(k, Fence(Plus))
    /\ received = <<ErrorItem(MsgEofTOML)>>

\* the kinds of the items delivered so far
Typs(s) == [k \in 1..Len(s) |-> s[k].typ]

FrontmatterTyps == {itemFrontmatterTOML, itemFrontmatterYAML, itemFrontmatterJSON}

CompleteShape(t) ==
    \/ Len(t) = 1 /\ t[1] = itemError
    \/ Len(t) = 2 /\ t[1] = itemMarkdown /\ t[2] = itemEOF
    \/ Len(t) = 3 /\ t[1] \in FrontmatterTyps /\ t[2] = itemMarkdown /\ t[3] = itemEOF

PartialShape(t) ==
    \/ Len(t) = 0
    \/ Len(t) = 1 /\ t[1] \in FrontmatterTyps \cup {itemMarkdown}
    \/ Len(t) = 2 /\ t[1] \in FrontmatterTyps /\ t[2] = itemMarkdown

\* C5: for every input the items sent before the channel is closed are
\* [Error], [Content, EOF] or [F, Content, EOF] with F one frontmatter item:
\* at any time what has been sent begins one of these, and once the state
\* machine has ended or the channel is closed it is one of them.
C5_ItemSequenceShape ==
    /\ PartialShape(Typs(received)) \/ CompleteShape(Typs(received))
    /\ (ScanComplete \/ closed) => CompleteShape(Typs(received))

\* the channel is closed on an Error run that consumed a whole opening fence
C5_Witness ==
    /\ closed /\ Typs(received) = <<itemError>> /\ pos > Len(Fence(Minus))
    /\ StartsAt(0, Fence(Minus))

RECURSIVE ConcatSpans(_)
\* the bytes of the first n spans, in order
ConcatSpans(n) ==
    IF n = 0 THEN <<>> ELSE ConcatSpans(n - 1) \o Slice(spans[n].from, spans[n].to)

EmittedSpans == SelectSeq(spans, LAMBDA sp : sp.kind = "emit")

ValueItems == SelectSeq(received, LAMBDA it : it.typ # itemError)

\* C6: at every emit or ignore the bytes input[0:start] are partitioned, in
\* order, without gap or overlap, into emitted and discarded spans; the
\* values of the delivered items are the emitted spans; and on a run that
\* ends with EOF start = len(input) and the spans concatenated are the input.
C6_RoundTrip ==
    /\ \A k \in 1..Len(spans) :
          /\ spans[k].from = (IF k = 1 THEN 0 ELSE spans[k - 1].to)
          /\ spans[k].from <= spans[k].to
          /\ spans[k].to <= Len(input)
    /\ start = (IF Len(spans) = 0 THEN 0 ELSE spans[Len(spans)].to)
    /\ ConcatSpans(Len(spans)) = Slice(0, start)
    /\ Len(ValueItems) = Len(EmittedSpans)
    /\ \A k \in 1..Len(ValueItems) :
          ValueItems[k].val = Slice(EmittedSpans[k].from, EmittedSpans[k].to)
    /\ (Len(received) > 0 /\ received[Len(received)].typ = itemEOF) =>
          /\ start = Len(input)
          /\ ConcatSpans(Len(spans)) = input

\* EOF has been delivered for a fenced document with '\r\n' line breaks:
\* two spans discarded, three emitted
C6_Witness ==
    /\ Len(received) = 3 /\ received[3].typ = itemEOF
    /\ StartsAt(0, Fence(Plus) \o <<CR, LF>>)
    /\ Len(spans) = 5
    /\ spans[1].kind = "ignore" /\ spans[1].to = 5
    /\ spans[3].kind = "ignore" /\ spans[3].to > spans[3].from
    /\ ConcatSpans(Len(spans)) = input


\* the fence of c stands somewhere after the opening fence
LaterFence(c) == \E k \in Len(Fence(c))..Len(input) : StartsAt(k, Fence(c))

\* the frontmatter item of kind t, once sent, ends with a line-break
\* character that the fence of c follows
ClosedAfterLineBreak(t, c) ==
    (Len(received) > 0 /\ received[1].typ = t) =>
        LET v == received[1].val
            e == spans[1].to + Len(v)
        IN  /\ Len(v) > 0 /\ v[Len(v)] \in {CR, LF}
            /\ StartsAt(e, Fence(c))

\* C7: a closing fence is recognised only at a position immediately
\* preceded by '\r' or '\n': when the scanner has found the close, and in
\* the item it then sends, the byte before the fence is a line-break
\* character; and an input whose only later occurrences of the fence are
\* mid-line ends with the 'EOF looking for end ...' Error item alone.
C7_CloseOnlyAfterLineBreak ==
    /\ pc \in {"emitTOML", "closeTOML"} =>
          pos > 0 /\ input[pos] \in {CR, LF} /\ StartsAt(pos, Fence(Plus))
    /\ pc \in {"emitYAML", "closeYAML"} =>
          pos > 0 /\ input[pos] \in {CR, LF} /\ StartsAt(pos, Fence(Minus))
    /\ ClosedAfterLineBreak(itemFrontmatterTOML, Plus)
    /\ ClosedAfterLineBreak(itemFrontmatterYAML, Minus)
    /\ (ScanComplete /\ UnclosedFence(Plus) /\ LaterFence(Plus)) =>
          received = <<ErrorItem(MsgEofTOML)>>
    /\ (ScanComplete /\ UnclosedFence(Minus) /\ LaterFence(Minus)) =>
          received = <<ErrorItem(MsgEofYAML)>>

\* the scan of '---', line break, 'a---' and more has ended with the Error
C7_Witness ==
    /\ ScanComplete /\ UnclosedFence(Minus)
    /\ \E lb \in LineBreaks : StartsAt(0, Fence(Minus) \o lb \o <<97>> \o Fence(Minus))
    /\ received = <<ErrorItem(MsgEofYAML)>>

\* C8 as claimed: for every input the emitted JSON block ends at the '}'
\* that truly matches the opening '{' (the first unquoted '}' that returns
\* the count of unquoted braces to zero), never at a '}' inside a string or
\* after an escaped quote.
C8_JSONEndsAtMatch == pc = "endJSON" => pos = JSONEnd

\* C8 amended: the same for every input in which no backslash stands
\* outside a double-quoted string up to the end of the emitted block.
C8_JSONEndsAtMatchNoStrayBackslash ==
    (pc = "endJSON" /\ ~StrayBackslash(1, FALSE, pos)) => pos = JSONEnd

\* the loop has ended on an object that holds a string with an escaped
\* quote
C8_Witness ==
    /\ pc = "endJSON" /\ ~StrayBackslash(1, FALSE, pos)
    /\ \E k \in 1..(pos - 2) : input[k] = Backslash /\ input[k + 1] = Quote
    /\ pos = JSONEnd

MsgInvalid(c) == IF c = Plus THEN MsgInvalidTOML ELSE MsgInvalidYAML

\* the input begins with c but not with exactly three c
BadOpening(c) ==
    /\ Len(input) > 0 /\ input[1] = c
    /\ ~StartsAt(0, Fence(c)) \/ StartsAt(0, Fence(c) \o <<c>>)

\* C9: an input that begins with '+' (resp. '-') but whose opening fence is
\* not exactly three such characters (fewer, another character among the
\* first three, or more than three in a row) yields the single Error item
\* 'invalid TOML delimiter' (resp. YAML).  The code does not do this for
\* four or more fence characters.
C9_BadOpeningIsInvalidDelimiter ==
    ScanComplete =>
        \A c \in {Plus, Minus} : BadOpening(c) => received = <<ErrorItem(MsgInvalid(c))>>

\* an Error item has been delivered
ErrorDelivered == \E k \in 1..Len(received) : received[k].typ = itemError

\* C10: when the scanner delivers an Error item parse returns a non-nil
\* error and main exits with a non-zero status; parse returns nil only for
\* runs that end with the EOF item.  The code does not do this: parse
\* prints the Error item and returns nil.
C10_ErrorItemIsFatal ==
    /\ (ErrorDelivered /\ cpc \in {"returned", "exited"}) => ret = "error"
    /\ (ErrorDelivered /\ exit # -1) => exit = 1
    /\ ret = "nil" => (Len(received) > 0 /\ received[Len(received)].typ = itemEOF)


\* the producer stands at a send on l.items
SendPcs == EmitPcs \cup {"errorf"}

\* the item the producer is sending there
Pending == IF pc = "errorf" THEN ErrorItem(msg) ELSE Item(EmitTyp(pc))

\* C11: under every interleaving the consumer receives the items in the
\* order the state machine emitted them, each exactly once, and never more
\* than one item is emitted but not yet received: every item added to what
\* was received is the one the producer stands sending, taken while the
\* consumer stands at its receive, and the producer leaves that send with
\* it; a producer that stands at a send does nothing else until then.
C11_UnbufferedHandoff ==
    [][ /\ received' # received =>
              /\ pc \in SendPcs /\ pc' # pc
              /\ cpc = "range" /\ cpc' = "body"
              /\ received' = Append(received, Pending)
              /\ cur' = Pending
        /\ (pc \in SendPcs /\ received' = received) =>
              /\ pc' = pc
              /\ UNCHANGED <<input, start, pos, width, i, inQuote, level, msg, closed, spans>>
      ]_vars

\* the producer stands at the send of the Content item while parse is
\* still in its loop body with the frontmatter item
C11_Witness ==
    /\ pc = "emitMarkdown" /\ cpc = "body"
    /\ Len(received) = 1 /\ cur = received[1]
    /\ cur.typ = itemFrontmatterYAML


(***************************************************************************)
(* parse and the goroutine it starts, without main: the scheduler runs     *)
(* every goroutine that can take a step, and nothing ends the process.     *)
(***************************************************************************)
NextParse ==
    \/ lexStart
    \/ lexFrontmatterTOML
    \/ lexFrontmatterYAML
    \/ lexFrontmatterJSON
    \/ lexMarkdown
    \/ emit
    \/ errorf
    \/ run
    \/ parseReadError
    \/ lex
    \/ parseBody
    \/ parseRangeEnd

SpecParse == Init /\ [][NextParse]_vars /\ WF_vars(NextParse)

\* the last item handed over is the EOF item or an Error item
EndDelivered ==
    Len(received) > 0 /\ received[Len(received)].typ \in {itemEOF, itemError}

\* C12: for every input and every fair interleaving with parse (range
\* variant) as consumer, the producer goroutine eventually terminates: it
\* closes the channel once, only after the EOF or Error item has been
\* received, never sends after closing, is never left blocked on a send;
\* and parse eventually returns.
C12_ProducerTerminates ==
    /\ [][ /\ closed => closed'
           /\ closed' # closed => (pc = "close" /\ pc' = "exited" /\ EndDelivered)
           /\ closed => received' = received
           /\ pc = "exited" => pc' = "exited" ]_vars
    /\ [](pc = "exited" => closed)
    /\ <>(cpc = "returned" /\ pc \in {"notStarted", "exited"})

\* an Error run is over: the channel is closed, the goroutine has ended and
\* parse has returned
C12_Witness ==
    /\ pc = "exited" /\ closed /\ cpc = "returned"
    /\ received = <<ErrorItem(MsgEofJSON)>>
    /\ Len(input) > 1


(***************************************************************************)
(* The items of one run of lexer.run taken alone, from lexStart until a    *)
(* state function returns nil, as a function of the input.                 *)
(***************************************************************************)
\* lexMarkdown and lexDone entered with start = pos = s
MarkdownItems(s) ==
    << [typ |-> itemMarkdown, val |-> SubSeq(input, s + 1, Len(input)), msg |-> ""],
       [typ |-> itemEOF, val |-> <<>>, msg |-> ""] >>

\* the loop of lexFrontmatterTOML/YAML entered at p: the pos at its emit, or
\* eof when next() returns eof first
RECURSIVE FenceEnd(_, _)
FenceEnd(p, c) ==
    IF NextRune(p) = eof THEN eof
    ELSE IF IsEndOfLine(NextRune(p)) /\ HasPrefix(NextPos(p), Fence(c))
         THEN NextPos(p)
         ELSE FenceEnd(NextPos(p), c)

\* lexFrontmatterTOML/YAML and what follows them
FenceItems(c, t, bad, eofMsg) ==
    IF \E k \in 0..(FenceLen - 1) : NextRune(k) # c
    THEN << ErrorItem(bad) >>
    ELSE LET o == ConsumeCRLF(FenceLen).pos
             e == FenceEnd(o, c)
         IN  IF e = eof
             THEN << ErrorItem(eofMsg) >>
             ELSE << [typ |-> t, val |-> SubSeq(input, o + 1, e), msg |-> ""] >>
                  \o MarkdownItems(ConsumeCRLF(e + FenceLen).pos)

\* the loop of lexFrontmatterJSON entered at p with level lv and inQuote q:
\* the pos at its break, or eof when next() returns eof in the switch
RECURSIVE JSONBreak(_, _, _)
JSONBreak(p, lv, q) ==
    LET r  == NextRune(p)
        l2 == IF r = LBrace /\ ~q THEN lv + 1
              ELSE IF r = RBrace /\ ~q THEN lv - 1
              ELSE lv
        q2 == IF r = Quote THEN ~q ELSE q
        p2 == IF r = Backslash THEN NextPos(NextPos(p)) ELSE NextPos(p)
    IN  IF r = eof THEN eof
        ELSE IF l2 = 0 THEN p2
        ELSE JSONBreak(p2, l2, q2)

\* lexFrontmatterJSON and what follows it
JSONItems ==
    LET e == JSONBreak(0, 0, FALSE)
    IN  IF e = eof
        THEN << ErrorItem(MsgEofJSON) >>
        ELSE << [typ |-> itemFrontmatterJSON,
                 val |-> SubSeq(input, 1, ConsumeCRLF(e).pos), msg |-> ""] >>
             \o MarkdownItems(ConsumeCRLF(e).pos)

\* lexStart's switch
LexItems ==
    CASE NextRune(0) = Plus   -> FenceItems(Plus, itemFrontmatterTOML, MsgInvalidTOML, MsgEofTOML)
      [] NextRune(0) = Minus  -> FenceItems(Minus, itemFrontmatterYAML, MsgInvalidYAML, MsgEofYAML)
      [] NextRune(0) = LBrace -> JSONItems
      [] OTHER                -> MarkdownItems(0)

\* C13: determinism.  Whatever the interleaving of producer and consumer
\* steps, the items delivered so far are a prefix of one sequence that depends
\* on the input alone, and once the scan is over they are that sequence: any
\* two runs on the same input deliver the same kinds and values in the same
\* order.
C13_Deterministic ==
    /\ Len(received) <= Len(LexItems)
    /\ received = SubSeq(LexItems, 1, Len(received))
    /\ ScanComplete => received = LexItems

\* a run that delivered three items is over, its consumer back in main
C13_Witness ==
    /\ ScanComplete /\ cpc = "exited"
    /\ Len(received) = 3
    /\ received[1].typ = itemFrontmatterJSON
    /\ Len(received[2].val) > 0


\* the length of the line-break sequence at offset p: 2 for "\r\n" and
\* "\n\r", 1 for a lone '\r' or '\n', 0 when the next character is neither
\* or the input is at its end
LineBreakLen(p) ==
    IF ~IsEndOfLine(NextRune(p)) THEN 0
    ELSE IF IsEndOfLine(NextRune(p + 1)) /\ NextRune(p + 1) # NextRune(p) THEN 2
    ELSE 1

\* consumeCRLF called at offset p and leaving pos at q did what the claim
\* says of it
WholeLineBreak(p, q) ==
    /\ q = p + LineBreakLen(p)
    /\ ConsumeCRLF(p).consumed = (q > p)

\* C14: every call of consumeCRLF the scanner has made (after an opening
\* fence, after a closing fence, after the JSON block) consumed the whole
\* line-break sequence found at its offset ('\r', '\n', '\r\n' or '\n\r'),
\* returned true exactly when it advanced pos, and left pos where it was and
\* returned false when the next character was neither '\r' nor '\n' or the
\* input was at its end.
C14_ConsumesWholeLineBreak ==
    /\ \A k \in 1..Len(spans) :
           spans[k].kind = "ignore" =>
               WholeLineBreak(spans[k].from + FenceLen, spans[k].to)
    /\ pc = "emitJSON" => WholeLineBreak(JSONBreak(0, 0, FALSE), pos)


\* C15: in every reachable state 0 <= start <= pos <= len(input), the pos
\* the 'l.pos += 3' after the emit of a TOML/YAML item passes through
\* included, so the slice input[start:pos] an emit takes is in range.
C15_StartPosInRange ==
    /\ 0 <= start /\ start <= pos /\ pos <= Len(input)
    /\ pc \in {"closeTOML", "closeYAML"} => pos + FenceLen <= Len(input)

\* the closing fence ends the input: after 'pos += 3', consumeCRLF and
\* ignore, start and pos both stand at the end
C15_Witness ==
    /\ pc = "lexMarkdown" /\ Len(received) = 1
    /\ received[1].typ = itemFrontmatterTOML
    /\ start = pos /\ pos = Len(input)
    /\ HasPrefix(pos - FenceLen, Fence(Plus))


\* the state function lexStart's switch picks for the character r
StartState(r) ==
    CASE r = Plus   -> "lexFrontmatterTOML"
      [] r = Minus  -> "lexFrontmatterYAML"
      [] r = LBrace -> "lexFrontmatterJSON"
      [] OTHER      -> "lexMarkdown"

\* C16: peek() leaves pos (and start) where they were and the next() that
\* follows returns the character peek returned, at every offset of the input:
\* at the end of input (the sentinel, backup by width 0) and before a
\* multi-byte code point too; every backup the scanner executes (in peek and
\* in consumeCRLF) undoes exactly the next() before it, so a consumeCRLF at a
\* character that is no line break leaves pos unchanged; and the peek of
\* lexStart moves neither pos nor start while the state it selects is the one
\* of the character the following next() reads.
C16_PeekDoesNotConsume ==
    /\ [](pc = "lexStart" => \A p \in 0..Len(input) :
              /\ PeekPos(p) = p
              /\ NextRune(PeekPos(p)) = NextRune(p)
              /\ Backup(NextPos(p), NextWidth(p)) = p
              /\ ConsumeCRLF(p).pos >= p
              /\ ~IsEndOfLine(NextRune(p)) => ConsumeCRLF(p).pos = p)
    /\ [][pc = "lexStart" =>
              /\ pos' = pos /\ start' = start
              /\ width' = NextWidth(pos')
              /\ pc' = StartState(NextRune(pos'))]_vars

\* lexStart has peeked at a two-byte code point: the width it recorded is 2
\* and pos is still 0
C16_Witness ==
    /\ pc = "lexMarkdown" /\ pos = 0 /\ start = 0 /\ width = 2
    /\ NextRune(0) > 127


\* the producer stands in one of the loops of the state functions
LoopPcs ==
    {"lexFrontmatterTOML", "scanTOML", "lexFrontmatterYAML", "scanYAML",
     "lexFrontmatterJSON", "lexMarkdown"}

\* C17: the scanner terminates on every input when its consumer keeps
\* receiving.  An iteration that stays in a loop of lexFrontmatterTOML,
\* lexFrontmatterYAML, lexFrontmatterJSON or lexMarkdown strictly advances
\* pos, and one that reads the end of input leaves the loop; so run's loop
\* reaches the nil state, and the items delivered by then are finitely many
\* (at most three) and end with EOF or an Error item.
C17_ScannerTerminates ==
    /\ [][ /\ (pc \in LoopPcs /\ pc' = pc /\ cpc' = cpc) => pos' > pos
           /\ (pc \in LoopPcs /\ NextRune(pos) = eof /\ cpc' = cpc) =>
                  pc' \in {"errorf", "emitMarkdown", "scanTOML", "scanYAML"}
         ]_vars
    /\ (pc = "lexStart") ~> ScanComplete
    /\ [](ScanComplete => EndDelivered /\ Len(received) <= 3)

\* a search for the closing fence that ran over several characters to the
\* end of the input and ended the run with the Error item
C17_Witness ==
    /\ pc = "exited"
    /\ received = <<ErrorItem(MsgEofYAML)>>
    /\ pos = Len(input) /\ start < pos - 3


(***************************************************************************)
(* The parse variant that receives with 'item := <-items' in a 'for' loop  *)
(* left only on itemEOF.  cpc = "range" is parse standing at the receive,  *)
(* where emit and errorf meet it; cpc = "body" is the test that follows.   *)
(***************************************************************************)
\* 'item := <-items' on the closed channel: it does not block and yields the
\* zero item
parseRecvClosed ==
    /\ cpc = "range"
    /\ closed
    /\ cur' = ZeroItem
    /\ cpc' = "body"
    /\ UNCHANGED <<input, start, pos, width, pc, i, inQuote, level, msg, closed,
                   received, spans, ret, exit>>

\* 'if item.typ == itemEOF { break }', else Println(item.val) and loop
parseRecvBody ==
    /\ cpc = "body"
    /\ IF cur.typ = itemEOF
       THEN cpc' = "returned" /\ ret' = "nil"
       ELSE cpc' = "range" /\ ret' = ret
    /\ UNCHANGED <<input, start, pos, width, pc, i, inQuote, level, msg, closed,
                   cur, received, spans, exit>>

NextRecv ==
    \/ lexStart
    \/ lexFrontmatterTOML
    \/ lexFrontmatterYAML
    \/ lexFrontmatterJSON
    \/ lexMarkdown
    \/ emit
    \/ errorf
    \/ run
    \/ parseReadError
    \/ lex
    \/ parseRecvBody
    \/ parseRecvClosed

SpecRecv == Init /\ [][NextRecv]_vars /\ WF_vars(NextRecv)

\* C18: in the blocking-receive variant parse returns for every input, the
\* inputs whose scan ends with an Error item and a closed channel included.
C18_RecvParseReturns == <>(cpc = "returned")


\* C19: in lexFrontmatterJSON the nesting counter is never negative and is at
\* least 1 from the consumption of the first character until the loop is
\* left; the loop is left for consumeCRLF exactly by the iteration that
\* brings the counter back to 0, and for the 'unexpected EOF parsing JSON
\* front matter' Error exactly by the iteration whose next() reads the end
\* of input, the counter being >= 1 then (also when the end of input was
\* swallowed by the extra next() after a backslash).
C19_JSONLevel ==
    /\ [](level >= 0)
    /\ [](pc = "lexFrontmatterJSON" /\ pos > 0 => level >= 1)
    /\ [](pc \in {"endJSON", "emitJSON"} => level = 0)
    /\ [](pc = "errorf" /\ msg = MsgEofJSON => level >= 1 /\ pos = Len(input))
    /\ [][ (pc = "lexFrontmatterJSON" /\ cpc' = cpc) =>
              /\ pc' = "endJSON" <=> (NextRune(pos) # eof /\ level' = 0)
              /\ pc' = "errorf" <=> NextRune(pos) = eof
              /\ pc' = "errorf" => msg' = MsgEofJSON
              /\ pc' \in {"endJSON", "errorf", "lexFrontmatterJSON"}
         ]_vars

\* the input ends in a backslash outside a string: its extra next() read the
\* end of input, the next iteration read it again and produced the Error
C19_Witness ==
    /\ pc = "errorf" /\ msg = MsgEofJSON
    /\ level = 2 /\ ~inQuote
    /\ input[Len(input)] = Backslash


\* the message of the Error item for an unclosed block of fence character c
MsgEof(c) == IF c = Plus THEN MsgEofTOML ELSE MsgEofYAML

\* the input is fence, line break, fence and then holds no line-break
\* character immediately followed by the fence
EmptyBlock(c) ==
    \E lb \in LineBreaks :
        /\ StartsAt(0, Fence(c) \o lb \o Fence(c))
        /\ NoCloseInside(FenceLen + Len(lb), Len(input), c)

\* C20: a fence that directly follows the line break of the opening fence
\* (an empty frontmatter body) is not taken for the close of the block: every
\* TOML or YAML frontmatter item delivered has a non-empty value, and when
\* the input holds no later line-break character followed by the fence the
\* run delivers the single Error item 'EOF looking for end TOML/YAML front
\* matter delimiter'.
C20_EmptyBodyIsNoClose ==
    /\ \A k \in 1..Len(received) :
           received[k].typ \in {itemFrontmatterTOML, itemFrontmatterYAML} =>
               Len(received[k].val) > 0
    /\ \A c \in {Plus, Minus} :
           (ScanComplete /\ EmptyBlock(c)) => received = <<ErrorItem(MsgEof(c))>>
    /\ \A c \in {Plus, Minus} :
           (EmptyBlock(c) /\ pc \notin {"notStarted", "lexStart"}) =>
               /\ pc \notin EmitPcs
               /\ \A k \in 1..Len(received) : received[k].typ = itemError

\* '+++', line break, '+++', line break, body: the run is over with the
\* Error item alone
C20_Witness ==
    /\ ScanComplete
    /\ StartsAt(0, Fence(Plus) \o <<LF>> \o Fence(Plus) \o <<LF, 97>>)
    /\ received = <<ErrorItem(MsgEofTOML)>>

====
